---- MODULE Spec2Model ----
(***************************************************************************)
(* State-machine model of etsegtools.segmentation (class Segmentation, the *)
(* readers read_dragonfly / read_mrcfile) and of the script                *)
(* scripts/rescale_dragonfly.py.                                           *)
(*                                                                         *)
(* A volume is modelled as a one-dimensional grid: a sequence of voxel     *)
(* values whose length is the shape.  A Python dict is a sequence of       *)
(* [k, v] entries in insertion order.  Pixel sizes are small integers.     *)
(* The file system is two folders, "in" and "out"; a folder holds one      *)
(* "<label>.tiff" image per label name and named MRC files.                *)
(***************************************************************************)
EXTENDS Integers, Sequences, FiniteSets, TLC

NVox == 2        \* voxels of every mask image present before the program runs
MaxLabels == 2   \* longest label list a caller passes to a reader
MaxPix == 2      \* largest pixel size a caller passes
MaxIter == 1     \* largest iteration count passed to morphological_smooth

Names == {"a", "b"}
Absent == "c"    \* a label name that no reader is ever given
LabelLists == UNION {[1..n -> Names] : n \in 0..MaxLabels}
PixSizes == 0..MaxPix
Iters == 0..MaxIter
Threshs == {1, 2, 3}   \* re-binarisation thresholds, in quarters: 1/4, 2/4, 3/4
Dirs == {"in", "out"}
Images == [1..NVox -> {0, 255}]

VARIABLES seg, fs, ret, pc

vars == <<seg, fs, ret, pc>>

(***************************************************************************)
(* Python values                                                           *)
(***************************************************************************)
NoSeg == [none |-> TRUE]
NoDir == [nodir |-> TRUE]
EmptyDir == [tiff |-> <<>>, mrc |-> <<>>]
None == [some |-> FALSE]
Some(v) == [some |-> TRUE, val |-> v]
Raise(e) == [err |-> e]
Return(v) == [err |-> "none", value |-> v]

Max(x, y) == IF x >= y THEN x ELSE y
Min(x, y) == IF x <= y THEN x ELSE y

\* dict.keys(): the keys in insertion order
Keys(d) == [i \in 1..Len(d) |-> d[i].k]

\* key in dict
HasKey(d, key) == \E i \in 1..Len(d) : d[i].k = key

\* dict[key], for a key that is present
Get(d, key) == d[CHOOSE i \in 1..Len(d) : d[i].k = key].v

\* dict[key] = val: an existing key keeps its position, a new key is appended
Put(d, key, val) ==
    IF HasKey(d, key)
    THEN [i \in 1..Len(d) |-> IF d[i].k = key THEN [k |-> key, v |-> val] ELSE d[i]]
    ELSE Append(d, [k |-> key, v |-> val])

\* a function with string keys, extended or overwritten at one key
Store(f, key, val) == [n \in DOMAIN f \cup {key} |-> IF n = key THEN val ELSE f[n]]

(***************************************************************************)
(* External primitives (package qvox), modelled from their contracts       *)
(***************************************************************************)
\* qvox.utils.combine_binary_arrays: the last claiming mask wins a voxel
combine_binary_arrays(arrays) ==
    IF Len(arrays) = 0 THEN Raise("IndexError")
    ELSE IF \E i \in 1..Len(arrays) : Len(arrays[i]) # Len(arrays[1])
    THEN Raise("ShapeMismatch")
    ELSE Return([x \in 1..Len(arrays[1]) |->
            LET claim == {i \in 1..Len(arrays) : arrays[i][x] > 0}
            IN  IF claim = {} THEN 0 ELSE CHOOSE i \in claim : \A j \in claim : j <= i])

\* the neighbours of voxel x in a grid of n voxels
Nbrs(x, n) == {y \in {x - 1, x + 1} : y >= 1 /\ y <= n}

\* one round of label-preserving dilation: the lowest neighbouring ID wins
grow1(v) ==
    [x \in 1..Len(v) |->
        LET ids == {v[y] : y \in Nbrs(x, Len(v))} \ {0}
        IN  IF v[x] # 0 \/ ids = {} THEN v[x]
            ELSE CHOOSE i \in ids : \A j \in ids : i <= j]

\* one round of erosion: a voxel next to a different value becomes background
shrink1(v) ==
    [x \in 1..Len(v) |->
        IF \E y \in Nbrs(x, Len(v)) : v[y] # v[x] THEN 0 ELSE v[x]]

RECURSIVE grow(_, _)
grow(v, num_iterations) ==
    IF num_iterations = 0 THEN v ELSE grow(grow1(v), num_iterations - 1)

RECURSIVE shrink(_, _)
shrink(v, num_iterations) ==
    IF num_iterations = 0 THEN v ELSE shrink(shrink1(v), num_iterations - 1)

\* qvox.morphology.gaussian_smooth: blur each label's occupancy with the
\* kernel (1 2 1)/4, keep a label where the blur exceeds threshold/4, and
\* recombine (the highest claiming ID wins)
qvox_gaussian_smooth(v, threshold) ==
    [x \in 1..Len(v) |->
        LET occ(l) == 2 * (IF v[x] = l THEN 1 ELSE 0)
                      + Cardinality({y \in Nbrs(x, Len(v)) : v[y] = l})
            ids == {l \in {v[y] : y \in 1..Len(v)} \ {0} : occ(l) > threshold}
        IN  IF ids = {} THEN 0 ELSE CHOOSE i \in ids : \A j \in ids : j <= i]

\* qvox.sampling.rescale: nearest-voxel resampling of the grid from spacing
\* old to spacing new; a spacing that is not positive is rejected
qvox_rescale(v, old, new) ==
    IF old <= 0 \/ new <= 0 THEN Raise("InvalidParameter")
    ELSE LET n == Max(1, (Len(v) * old) \div new)
         IN  Return([x \in 1..n |-> v[Min(Len(v), (((x - 1) * new) \div old) + 1)]])

(***************************************************************************)
(* numpy conversions                                                       *)
(***************************************************************************)
\* ndarray.astype(float): every label ID is a small integer, which float64
\* represents exactly
AsFloat(v) == [x \in 1..Len(v) |-> v[x]]

\* ndarray.astype(np.uint8) and uint8 arithmetic wrap modulo 2^8
AsUint8(v) == [x \in 1..Len(v) |-> v[x] % 256]

\* (array > 0).astype(int)
Binarize(v) == [x \in 1..Len(v) |-> IF v[x] > 0 THEN 1 ELSE 0]

(***************************************************************************)
(* class Segmentation                                                      *)
(***************************************************************************)
DefaultPixsize == 1

Segmentation(data, label_dict, pixsize) ==
    [data |-> data, label_dict |-> label_dict, pixsize |-> pixsize]

\* variant of get_binary_array that marks every labelled voxel, whatever its ID
get_binary_array_AnyLabel(self, label) ==
    IF ~HasKey(self.label_dict, label)
    THEN [err |-> "KeyError", report |-> <<label>>]
    ELSE Return([x \in 1..Len(self.data) |-> IF self.data[x] # 0 THEN 1 ELSE 0])

\* assert(cond, msg) asserts the two-element tuple (cond, msg), which is true
\* whatever cond is; the lookup self.label_dict[label] is what raises
get_binary_array(self, label) ==
    LET asserted == Len(<<HasKey(self.label_dict, label), "msg">>) > 0
    IN  IF ~asserted
        THEN [err |-> "AssertionError", report |-> Keys(self.label_dict)]
        ELSE IF ~HasKey(self.label_dict, label)
        THEN [err |-> "KeyError", report |-> <<label>>]
        ELSE Return([x \in 1..Len(self.data) |->
                IF self.data[x] = Get(self.label_dict, label) THEN 1 ELSE 0])

\* mrcfile.new fails when the parent folder of file_path does not exist
write_mrcfile(self, fsys, folder, name) ==
    IF fsys[folder] = NoDir THEN [err |-> "FileNotFoundError", fs |-> fsys]
    ELSE LET mrc == [voxel_size |-> self.pixsize,
                     data |-> AsFloat(self.data),
                     extended_header |-> Keys(self.label_dict)]
         IN  [err |-> "none",
              fs |-> [fsys EXCEPT ![folder].mrc = Store(fsys[folder].mrc, name, mrc)]]

\* variant of TiffOf that scales by 256, which wraps to 0 in uint8
TiffOf_Overflow(self, label) ==
    LET binary_array == [x \in 1..Len(self.data) |->
                            IF self.data[x] = Get(self.label_dict, label) THEN 1 ELSE 0]
    IN  [x \in 1..Len(binary_array) |-> (binary_array[x] * 256) % 256]

\* the image io.imsave is given for one label
TiffOf(self, label) ==
    LET binary_array == AsUint8(get_binary_array(self, label).value)
    IN  [x \in 1..Len(binary_array) |-> (binary_array[x] * 255) % 256]

write_dragonfly(self, fsys, folder_path, also_write_mrc) ==
    LET made == IF fsys[folder_path] = NoDir
                THEN [fsys EXCEPT ![folder_path] = EmptyDir] ELSE fsys
        withmrc == IF also_write_mrc
                   THEN write_mrcfile(self, made, folder_path, "combined.mrc").fs
                   ELSE made
        labels == {Keys(self.label_dict)[i] : i \in 1..Len(self.label_dict)}
        old == withmrc[folder_path].tiff
    IN  [err |-> "none",
         fs |-> [withmrc EXCEPT ![folder_path].tiff =
                    [n \in DOMAIN old \cup labels |->
                        IF n \in labels THEN TiffOf(self, n) ELSE old[n]]]]

\* variant of morphological_smooth that stores the grown volume in self.data
\* before it shrinks
morphological_smooth_InPlace(self, iter, failed) ==
    IF failed = "grow" THEN [err |-> "PrimitiveError", stage |-> "grow", self |-> self]
    ELSE LET grown == [self EXCEPT !.data = grow(self.data, iter)]
         IN  IF failed = "shrink"
             THEN [err |-> "PrimitiveError", stage |-> "shrink", self |-> grown]
             ELSE [err |-> "none", stage |-> "done",
                   self |-> [grown EXCEPT !.data = shrink(grown.data, iter)]]

\* failed names the primitive that raises in this call, "none" when none does
morphological_smooth(self, iter, failed) ==
    IF failed = "grow" THEN [err |-> "PrimitiveError", stage |-> "grow", self |-> self]
    ELSE LET new_data == grow(self.data, iter)
         IN  IF failed = "shrink"
             THEN [err |-> "PrimitiveError", stage |-> "shrink", self |-> self]
             ELSE [err |-> "none", stage |-> "done",
                   self |-> [self EXCEPT !.data = shrink(new_data, iter)]]

gaussian_smooth(self, thresh, failed) ==
    IF failed = "gaussian_smooth"
    THEN [err |-> "PrimitiveError", stage |-> "gaussian_smooth", self |-> self]
    ELSE [err |-> "none", stage |-> "done",
          self |-> [self EXCEPT !.data = qvox_gaussian_smooth(self.data, thresh)]]

\* variant of rescale that resamples the volume and keeps the old pixsize
rescale_KeepsPixsize(self, new_pixsize, failed) ==
    LET r == IF failed = "rescale" THEN Raise("PrimitiveError")
             ELSE qvox_rescale(self.data, self.pixsize, new_pixsize)
    IN  IF r.err # "none" THEN [err |-> r.err, stage |-> "rescale", self |-> self]
        ELSE [err |-> "none", stage |-> "done", self |-> [self EXCEPT !.data = r.value]]

rescale(self, new_pixsize, failed) ==
    LET r == IF failed = "rescale" THEN Raise("PrimitiveError")
             ELSE qvox_rescale(self.data, self.pixsize, new_pixsize)
    IN  IF r.err # "none" THEN [err |-> r.err, stage |-> "rescale", self |-> self]
        ELSE [err |-> "none", stage |-> "done",
              self |-> [self EXCEPT !.data = r.value, !.pixsize = new_pixsize]]

(***************************************************************************)
(* readers                                                                 *)
(***************************************************************************)
\* the label_dict after the first n rounds of read_dragonfly's loop
RECURSIVE DragonflyDict(_, _)
DragonflyDict(labels, n) ==
    IF n = 0 THEN <<>>
    ELSE LET label_dict == DragonflyDict(labels, n - 1)
         IN  Put(label_dict, labels[n], Len(label_dict) + 1)

read_dragonfly(fsys, folder_name, labels, pixsize) ==
    IF \/ fsys[folder_name] = NoDir
       \/ \E i \in 1..Len(labels) : labels[i] \notin DOMAIN fsys[folder_name].tiff
    THEN Raise("FileNotFoundError")
    ELSE LET label_arrays == [i \in 1..Len(labels) |->
                                Binarize(fsys[folder_name].tiff[labels[i]])]
             data == combine_binary_arrays(label_arrays)
         IN  IF data.err # "none" THEN Raise(data.err)
             ELSE Return(Segmentation(data.value, DragonflyDict(labels, Len(labels)),
                                      pixsize))

\* {val: i for i, val in enumerate(label_list)}, after the first n items
RECURSIVE EnumerateDict(_, _)
EnumerateDict(label_list, n) ==
    IF n = 0 THEN <<>>
    ELSE Put(EnumerateDict(label_list, n - 1), label_list[n], n - 1)

\* pixsize is read from the file and then not handed to Segmentation
read_mrcfile(fsys, folder, name, label_list) ==
    IF fsys[folder] = NoDir \/ name \notin DOMAIN fsys[folder].mrc
    THEN Raise("FileNotFoundError")
    ELSE LET mrc == fsys[folder].mrc[name]
             data == mrc.data
             pixsize == mrc.voxel_size
             names == IF label_list = None THEN mrc.extended_header ELSE label_list.val
             label_dict == EnumerateDict(names, Len(names))
         IN  Return(Segmentation(data, label_dict, DefaultPixsize))

(***************************************************************************)
(* The state machine.  seg is the Segmentation the caller holds, fs the    *)
(* file system, ret the outcome of the last call, pc the position of       *)
(* scripts/rescale_dragonfly.py ("idle" when a caller drives the library). *)
(***************************************************************************)
\* a file system whose input folder holds one mask image per name
FsWith(masks, out) == [in |-> [tiff |-> masks, mrc |-> <<>>], out |-> out]

\* before the program runs: masks in the input folder, no Segmentation yet;
\* the output folder may or may not exist
Init ==
    /\ seg = NoSeg
    /\ \E masks \in [Names -> Images], out \in {NoDir, EmptyDir} :
        fs = FsWith(masks, out)
    /\ ret = [op |-> "none", err |-> "none"]
    /\ pc = "idle"

\* the Segmentations read_dragonfly constructs from some input folder
FromDragonfly ==
    {r.value : r \in {q \in {read_dragonfly(FsWith(masks, NoDir), "in", labels, pixsize) :
                                masks \in [Names -> Images], labels \in LabelLists,
                                pixsize \in PixSizes} : q.err = "none"}}

\* the Segmentations read_mrcfile constructs from a file write_mrcfile wrote
FromMrcfile ==
    {read_mrcfile(write_mrcfile(s, FsWith(<<>>, EmptyDir), "out", "totalseg.mrc").fs,
                  "out", "totalseg.mrc", label_list).value :
        s \in FromDragonfly, label_list \in {None} \cup {Some(l) : l \in LabelLists}}

\* after construction: the caller holds a Segmentation a reader returned; the
\* folders it came from are gone and the output folder does not exist yet
InitSeg ==
    /\ seg \in FromDragonfly \cup FromMrcfile
    /\ fs = [in |-> NoDir, out |-> NoDir]
    /\ ret = [op |-> "none", err |-> "none"]
    /\ pc = "idle"

\* seg = read_dragonfly(folder_name, labels, pixsize)
ReadFolder(folder_name, pixsizes) ==
    /\ pc = "idle"
    /\ \E labels \in LabelLists, pixsize \in pixsizes :
        LET r == read_dragonfly(fs, folder_name, labels, pixsize)
        IN  /\ seg' = IF r.err = "none" THEN r.value ELSE seg
            /\ ret' = [op |-> "read_dragonfly", err |-> r.err,
                       folder |-> folder_name, labels |-> labels]
    /\ UNCHANGED <<fs, pc>>

\* read_dragonfly on the input folder, with any pixsize
ReadDragonfly == ReadFolder("in", PixSizes)

\* read_dragonfly on the output folder, with pixsize left at its default
ReadBackDragonfly == ReadFolder("out", {DefaultPixsize})

\* seg = read_mrcfile(file_path, label_list), for the file WriteMrcfile writes
ReadMrcfile ==
    /\ pc = "idle"
    /\ \E label_list \in {None} \cup {Some(l) : l \in LabelLists} :
        LET r == read_mrcfile(fs, "out", "totalseg.mrc", label_list)
        IN  /\ seg' = IF r.err = "none" THEN r.value ELSE seg
            /\ ret' = [op |-> "read_mrcfile", err |-> r.err, label_list |-> label_list]
    /\ UNCHANGED <<fs, pc>>

\* seg.get_binary_array(label)
GetBinaryArray ==
    /\ pc = "idle"
    /\ seg # NoSeg
    /\ \E label \in Names \cup {Absent} :
        ret' = [op |-> "get_binary_array", label |-> label]
               @@ get_binary_array(seg, label)
    /\ UNCHANGED <<seg, fs, pc>>

\* seg.write_mrcfile(file_path), for a file_path in the output folder
WriteMrcfile ==
    /\ pc = "idle"
    /\ seg # NoSeg
    /\ LET r == write_mrcfile(seg, fs, "out", "totalseg.mrc")
       IN  /\ fs' = r.fs
           /\ ret' = [op |-> "write_mrcfile", err |-> r.err]
    /\ UNCHANGED <<seg, pc>>

\* seg.write_dragonfly(folder_path), for the output folder; also_write_mrc is
\* left at its default, as in every call the repository makes
WriteDragonfly ==
    /\ pc = "idle"
    /\ seg # NoSeg
    /\ \E also_write_mrc \in {FALSE} :
        LET r == write_dragonfly(seg, fs, "out", also_write_mrc)
        IN  /\ fs' = r.fs
            /\ ret' = [op |-> "write_dragonfly", err |-> r.err]
    /\ UNCHANGED <<seg, pc>>

\* seg.morphological_smooth(iter); grow or shrink may raise
MorphologicalSmooth ==
    /\ pc = "idle"
    /\ seg # NoSeg
    /\ \E iter \in Iters, failed \in {"none", "grow", "shrink"} :
        LET r == morphological_smooth(seg, iter, failed)
        IN  /\ seg' = r.self
            /\ ret' = [op |-> "morphological_smooth", err |-> r.err,
                       stage |-> r.stage]
    /\ UNCHANGED <<fs, pc>>

\* seg.gaussian_smooth(sigma, thresh); the filter may raise
GaussianSmooth ==
    /\ pc = "idle"
    /\ seg # NoSeg
    /\ \E thresh \in Threshs, failed \in {"none", "gaussian_smooth"} :
        LET r == gaussian_smooth(seg, thresh, failed)
        IN  /\ seg' = r.self
            /\ ret' = [op |-> "gaussian_smooth", err |-> r.err, stage |-> r.stage]
    /\ UNCHANGED <<fs, pc>>

\* seg.rescale(new_pixsize, thresh); the resampler may raise
Rescale ==
    /\ pc = "idle"
    /\ seg # NoSeg
    /\ \E new_pixsize \in PixSizes, failed \in {"none", "rescale"} :
        LET r == rescale(seg, new_pixsize, failed)
        IN  /\ seg' = r.self
            /\ ret' = [op |-> "rescale", err |-> r.err, stage |-> r.stage,
                       new_pixsize |-> new_pixsize]
    /\ UNCHANGED <<fs, pc>>

\* a caller that queries and transforms the Segmentation it holds
Next ==
    \/ GetBinaryArray
    \/ MorphologicalSmooth
    \/ GaussianSmooth
    \/ Rescale

Spec == InitSeg /\ [][Next]_vars

\* a caller that reads a mask folder and writes and reads the quantized file
NextMrc ==
    \/ ReadDragonfly
    \/ WriteMrcfile
    \/ ReadMrcfile

SpecMrc == Init /\ [][NextMrc]_vars

\* a caller that writes the Segmentation it holds as a mask folder and reads
\* the folder back
NextFolder ==
    \/ WriteDragonfly
    \/ ReadBackDragonfly

SpecFolder == InitSeg /\ [][NextFolder]_vars

(***************************************************************************)
(* scripts/rescale_dragonfly.py, one action per call of load_rescale_write *)
(***************************************************************************)
ScriptIter == 2
ScriptThresh == 2    \* thresh = 0.5, in quarters

\* the orders in which os.listdir may enumerate the names in S
Listings(S) ==
    {l \in [1..Cardinality(S) -> S] : \A i, j \in 1..Cardinality(S) : l[i] = l[j] => i = j}

InitScript ==
    /\ seg = NoSeg
    /\ \E masks \in [Names -> Images], out \in {NoDir, EmptyDir} :
        fs = FsWith(masks, out)
    /\ ret = [op |-> "none", err |-> "none"]
    /\ pc = "start"

\* labels = [... os.listdir(input_folder) ...]; seg = read_dragonfly(...)
ScriptRead ==
    /\ pc = "start"
    /\ \E labels \in Listings(DOMAIN fs["in"].tiff), orig_pixel_size \in PixSizes :
        LET r == read_dragonfly(fs, "in", labels, orig_pixel_size)
        IN  /\ seg' = IF r.err = "none" THEN r.value ELSE seg
            /\ ret' = [op |-> "read_dragonfly", err |-> r.err,
                       folder |-> "in", labels |-> labels]
            /\ pc' = IF r.err = "none" THEN "rescale" ELSE "failed"
    /\ UNCHANGED fs

\* seg.rescale(output_pixel_size, thresh = 0.3)
ScriptRescale ==
    /\ pc = "rescale"
    /\ \E output_pixel_size \in PixSizes, failed \in {"none", "rescale"} :
        LET r == rescale(seg, output_pixel_size, failed)
        IN  /\ seg' = r.self
            /\ ret' = [op |-> "rescale", err |-> r.err, stage |-> r.stage,
                       new_pixsize |-> output_pixel_size]
            /\ pc' = IF r.err = "none" THEN "morphological_smooth" ELSE "failed"
    /\ UNCHANGED fs

\* seg.morphological_smooth(iter=2)
ScriptMorphologicalSmooth ==
    /\ pc = "morphological_smooth"
    /\ \E failed \in {"none", "grow", "shrink"} :
        LET r == morphological_smooth(seg, ScriptIter, failed)
        IN  /\ seg' = r.self
            /\ ret' = [op |-> "morphological_smooth", err |-> r.err, stage |-> r.stage]
            /\ pc' = IF r.err = "none" THEN "gaussian_smooth" ELSE "failed"
    /\ UNCHANGED fs

\* seg.gaussian_smooth(sigma=2.5, thresh = 0.5)
ScriptGaussianSmooth ==
    /\ pc = "gaussian_smooth"
    /\ \E failed \in {"none", "gaussian_smooth"} :
        LET r == gaussian_smooth(seg, ScriptThresh, failed)
        IN  /\ seg' = r.self
            /\ ret' = [op |-> "gaussian_smooth", err |-> r.err, stage |-> r.stage]
            /\ pc' = IF r.err = "none" THEN "write_mrcfile" ELSE "failed"
    /\ UNCHANGED fs

\* seg.write_mrcfile(os.path.join(output_folder, "totalseg.mrc"))
ScriptWriteMrcfile ==
    /\ pc = "write_mrcfile"
    /\ LET r == write_mrcfile(seg, fs, "out", "totalseg.mrc")
       IN  /\ fs' = r.fs
           /\ ret' = [op |-> "write_mrcfile", err |-> r.err]
           /\ pc' = IF r.err = "none" THEN "write_dragonfly" ELSE "failed"
    /\ UNCHANGED seg

\* seg.write_dragonfly(output_folder)
ScriptWriteDragonfly ==
    /\ pc = "write_dragonfly"
    /\ LET r == write_dragonfly(seg, fs, "out", FALSE)
       IN  /\ fs' = r.fs
           /\ ret' = [op |-> "write_dragonfly", err |-> r.err]
           /\ pc' = IF r.err = "none" THEN "done" ELSE "failed"
    /\ UNCHANGED seg

NextScript ==
    \/ ScriptRead
    \/ ScriptRescale
    \/ ScriptMorphologicalSmooth
    \/ ScriptGaussianSmooth
    \/ ScriptWriteMrcfile
    \/ ScriptWriteDragonfly

SpecScript == InitScript /\ [][NextScript]_vars

(***************************************************************************)
(* Properties                                                              *)
(***************************************************************************)
Transforms == {"rescale", "morphological_smooth", "gaussian_smooth"}
Writers == {"write_mrcfile", "write_dragonfly"}

\* the set of values a dict maps to
Range(d) == {d[i].v : i \in 1..Len(d)}

\* no voxel is foreground in the masks of two label names
NonOverlapping(s) ==
    \A i, j \in 1..Len(s.label_dict) :
        i # j => \A x \in 1..Len(s.data) :
            ~(s.data[x] = s.label_dict[i].v /\ s.data[x] = s.label_dict[j].v)

HasDuplicates(l) == \E i, j \in 1..Len(l) : i # j /\ l[i] = l[j]

\* C1: get_binary_array(name), for a name present in labels, returns a volume
\* of the shape of data that is 1 exactly where data equals labels[name] and 0
\* at every other voxel, and leaves the Segmentation unchanged.
C1_MaskForExact ==
    [][(ret'.op = "get_binary_array" /\ HasKey(seg.label_dict, ret'.label)) =>
          /\ ret'.err = "none"
          /\ Len(ret'.value) = Len(seg.data)
          /\ \A x \in 1..Len(seg.data) :
                /\ ret'.value[x] \in {0, 1}
                /\ ret'.value[x] = 1 <=> seg.data[x] = Get(seg.label_dict, ret'.label)
          /\ seg' = seg]_vars

\* a mask with foreground and background has been returned for a volume that
\* also holds another label
C1_Witness ==
    /\ ret.op = "get_binary_array"
    /\ ret.err = "none"
    /\ \E x, y \in 1..Len(ret.value) :
        ret.value[x] = 1 /\ ret.value[y] = 0 /\ seg.data[y] # 0

\* C2: writing a Segmentation (of positive pixsize) with write_mrcfile and
\* reading the file back with read_mrcfile (no explicit label list) yields the
\* same volume, the same voxel size and the same label names in the same order
\* with the same IDs.
C2_MrcRoundTrip ==
    [][(/\ ret.op = "write_mrcfile" /\ ret.err = "none"
        /\ seg.pixsize > 0
        /\ ret'.op = "read_mrcfile" /\ ret'.err = "none"
        /\ ret'.label_list = None) =>
          /\ seg'.data = seg.data
          /\ seg'.pixsize = seg.pixsize
          /\ Keys(seg'.label_dict) = Keys(seg.label_dict)
          /\ \A i \in 1..Len(seg.label_dict) :
                Get(seg'.label_dict, seg.label_dict[i].k) = seg.label_dict[i].v]_vars

\* C3: writing a Segmentation whose masks do not overlap with write_dragonfly
\* and reading the folder back with read_dragonfly and the same ordered label
\* list reproduces, for every label, the same foreground voxels.
C3_FolderRoundTrip ==
    [][(/\ ret.op = "write_dragonfly" /\ ret.err = "none"
        /\ ret'.op = "read_dragonfly" /\ ret'.err = "none"
        /\ ret'.labels = Keys(seg.label_dict)
        /\ NonOverlapping(seg)) =>
          \A i \in 1..Len(seg.label_dict) :
              get_binary_array(seg', seg.label_dict[i].k).value
                  = get_binary_array(seg, seg.label_dict[i].k).value]_vars

\* a folder has been read back into a Segmentation with two labels, each of
\* which owns a voxel
C3_Witness ==
    /\ ret.op = "read_dragonfly"
    /\ ret.err = "none"
    /\ ret.folder = "out"
    /\ ret.labels = Keys(seg.label_dict)
    /\ Len(seg.label_dict) = 2
    /\ \A i \in 1..2 : \E x \in 1..Len(seg.data) : seg.data[x] = seg.label_dict[i].v

\* the ordered name list the last reader call assigned IDs from
NamesRead ==
    IF ret.op = "read_dragonfly" THEN ret.labels
    ELSE IF ret.label_list = None
    THEN fs["out"].mrc["totalseg.mrc"].extended_header
    ELSE ret.label_list.val

\* C4: in every Segmentation a reader returns, the name at position i
\* (counted from 0) of the name list has ID i+1, no two names share an ID and
\* no name has the background ID 0.
C4_LabelsBijection ==
    (/\ ret.op \in {"read_dragonfly", "read_mrcfile"}
     /\ ret.err = "none"
     /\ ~HasDuplicates(NamesRead)) =>
        /\ Len(seg.label_dict) = Len(NamesRead)
        /\ \A i \in 1..Len(NamesRead) : Get(seg.label_dict, NamesRead[i]) = i
        /\ \A i, j \in 1..Len(seg.label_dict) :
              seg.label_dict[i].v = seg.label_dict[j].v => i = j
        /\ 0 \notin Range(seg.label_dict)

\* C5: get_binary_array with a name that is not a key of labels fails with the
\* documented label-not-found condition (the AssertionError whose message
\* lists the known labels) and returns no mask.
C5_LabelNotFound ==
    (ret.op = "get_binary_array" /\ ~HasKey(seg.label_dict, ret.label)) =>
        /\ ret.err = "AssertionError"
        /\ ret.report = Keys(seg.label_dict)

\* C6: the pixsize of the Segmentation is positive in every reachable state.
C6_VoxelSizePositive == seg # NoSeg => seg.pixsize > 0

\* C7: read_dragonfly with a label list that holds a duplicate name fails; a
\* Segmentation it returns has one labels entry per mask combined, and every
\* value of its volume is 0 or an ID in the range of labels.
C7_DuplicateNamesRejected ==
    ret.op = "read_dragonfly" =>
        /\ HasDuplicates(ret.labels) => ret.err # "none"
        /\ ret.err = "none" =>
              /\ Len(seg.label_dict) = Len(ret.labels)
              /\ \A x \in 1..Len(seg.data) :
                    seg.data[x] \in Range(seg.label_dict) \cup {0}

\* C8: rescale, morphological_smooth and gaussian_smooth leave labels as they
\* are; a rescale that returns sets pixsize to the requested target;
\* morphological_smooth and gaussian_smooth leave pixsize as it is.
C8_TransformFrame ==
    [][ret'.op \in Transforms =>
          /\ seg'.label_dict = seg.label_dict
          /\ (ret'.op = "rescale" /\ ret'.err = "none") =>
                seg'.pixsize = ret'.new_pixsize
          /\ ret'.op # "rescale" => seg'.pixsize = seg.pixsize]_vars

\* a rescale to the largest pixsize has returned and has shrunk the grid
C8_Witness ==
    /\ ret.op = "rescale"
    /\ ret.err = "none"
    /\ seg.pixsize = MaxPix
    /\ Len(seg.data) < NVox

\* C9: a transform whose primitive raises leaves data and pixsize (the whole
\* Segmentation) exactly as before the call.
C9_AllOrNothing ==
    [][(ret'.op \in Transforms /\ ret'.err # "none") => seg' = seg]_vars

\* shrink has raised in a morphological_smooth whose grow step changes data
C9_Witness ==
    /\ ret.op = "morphological_smooth"
    /\ ret.err # "none"
    /\ ret.stage = "shrink"
    /\ grow(seg.data, 1) # seg.data

\* C10: load_rescale_write creates the output folder before it writes into
\* it: no write of an output file fails, and a finished run has persisted the
\* quantized file and one mask file per label.
C10_OutputPersisted ==
    /\ pc = "failed" => ret.op \notin Writers
    /\ pc = "done" =>
          /\ fs["out"] # NoDir
          /\ "totalseg.mrc" \in DOMAIN fs["out"].mrc
          /\ \A i \in 1..Len(seg.label_dict) :
                seg.label_dict[i].k \in DOMAIN fs["out"].tiff

====
